---- MODULE Spec2Model ----
(***************************************************************************)
(* Test positivity: AllMethods.run and Method.calculate of                 *)
(* libs/test_positivity.py as a state machine.  A store of cumulative      *)
(* counters (metrics_in) is given, run() is applied to it, and the frames   *)
(* run() builds on the way are kept as the state after the run.            *)
(*                                                                         *)
(* A cell of a frame is a tuple: <<>> is NaN (missing), <<v>> is a         *)
(* cumulative value or a delta, and a ratio is the reduced fraction        *)
(* <<n, d>> with d > 0, or <<1, 0>> for inf and <<-1, 0>> for -inf.        *)
(***************************************************************************)
EXTENDS Integers, Sequences, FiniteSets, TLC

VARIABLES
    data,               \* metrics_in.data: field -> region -> date -> cell
    columns,            \* metrics_in.data.columns (the value columns)
    methods,            \* run(methods=...)
    diff_days,          \* run(diff_days=...)
    recent_days,        \* run(recent_days=...)
    pc,                 \* "ready", "done" (run returned) or "failed" (run raised)
    input_date_range,   \* local of run
    recent_date_range,  \* local of run
    diff_df,            \* local of run
    all_wide,           \* AllMethods.all_methods_timeseries
    test_positivity,    \* AllMethods.test_positivity
    prev,               \* the result of the run before the last change of the store
    changed             \* the regions whose observations were changed since

vars == <<data, columns, methods, diff_days, recent_days, pc, input_date_range,
          recent_date_range, diff_df, all_wide, test_positivity, prev, changed>>

----------------------------------------------------------------------------
(* Bounds of the model *)

\* the calendar is the days 1..MaxDate
MaxDate == 3

Dates == 1..MaxDate
Regions == {"r1", "r2"}
DiffDaysChoices == {1, 2}
RecentDaysChoices == {1, 3}
\* what a counter gains from one day to the next
Slopes == {-1, 0, 1}

----------------------------------------------------------------------------
(* Strings: Python compares str by code point, lexicographically *)

CodePoints ==
    "positiveCasesViral_totalTestEncountersViral" :>
        <<112, 111, 115, 105, 116, 105, 118, 101, 67, 97, 115, 101, 115, 86, 105, 114, 97, 108, 95, 116, 111, 116, 97, 108, 84, 101, 115, 116, 69, 110, 99, 111, 117, 110, 116, 101, 114, 115, 86, 105, 114, 97, 108>> @@
    "positiveTestsViral_totalTestsViral" :>
        <<112, 111, 115, 105, 116, 105, 118, 101, 84, 101, 115, 116, 115, 86, 105, 114, 97, 108, 95, 116, 111, 116, 97, 108, 84, 101, 115, 116, 115, 86, 105, 114, 97, 108>> @@
    "positiveCasesViral_totalTestsViral" :>
        <<112, 111, 115, 105, 116, 105, 118, 101, 67, 97, 115, 101, 115, 86, 105, 114, 97, 108, 95, 116, 111, 116, 97, 108, 84, 101, 115, 116, 115, 86, 105, 114, 97, 108>> @@
    "positiveTests_totalTestsViral" :>
        <<112, 111, 115, 105, 116, 105, 118, 101, 84, 101, 115, 116, 115, 95, 116, 111, 116, 97, 108, 84, 101, 115, 116, 115, 86, 105, 114, 97, 108>> @@
    "positiveCasesViral_totalTestsPeopleViral" :>
        <<112, 111, 115, 105, 116, 105, 118, 101, 67, 97, 115, 101, 115, 86, 105, 114, 97, 108, 95, 116, 111, 116, 97, 108, 84, 101, 115, 116, 115, 80, 101, 111, 112, 108, 101, 86, 105, 114, 97, 108>> @@
    "positiveCasesViral_totalTestResults" :>
        <<112, 111, 115, 105, 116, 105, 118, 101, 67, 97, 115, 101, 115, 86, 105, 114, 97, 108, 95, 116, 111, 116, 97, 108, 84, 101, 115, 116, 82, 101, 115, 117, 108, 116, 115>> @@
    "r1" :> <<114, 49>> @@
    "r2" :> <<114, 50>>

RECURSIVE SeqLess(_, _)
SeqLess(a, b) ==
    IF a = <<>> THEN b # <<>>
    ELSE IF b = <<>> THEN FALSE
    ELSE IF Head(a) # Head(b) THEN Head(a) < Head(b)
    ELSE SeqLess(Tail(a), Tail(b))

\* the strings of the model in str order, computed once
RECURSIVE SortStrings(_)
SortStrings(S) ==
    IF S = {} THEN <<>>
    ELSE LET m == CHOOSE x \in S :
                    \A y \in S \ {x} : SeqLess(CodePoints[x], CodePoints[y])
         IN  <<m>> \o SortStrings(S \ {m})

StrOrder == SortStrings(DOMAIN CodePoints)

StrRank == [s \in DOMAIN CodePoints |-> CHOOSE i \in DOMAIN StrOrder : StrOrder[i] = s]

StrLess(a, b) == StrRank[a] < StrRank[b]

----------------------------------------------------------------------------
(* Cells and float arithmetic *)

NaN == <<>>
Inf == <<1, 0>>
NegInf == <<-1, 0>>

notna(c) == c # NaN

Abs(x) == IF x < 0 THEN -x ELSE x

RECURSIVE GCD(_, _)
GCD(a, b) == IF b = 0 THEN a ELSE GCD(b, a % b)

\* float subtraction of two cells of a counter: NaN when either is NaN
Sub(a, b) == IF notna(a) /\ notna(b) THEN <<a[1] - b[1]>> ELSE NaN

\* float division n / d of two delta cells, as numpy computes it:
\* x / 0 is inf or -inf by the sign of x, 0 / 0 is NaN, NaN propagates
TrueDiv(n, d) ==
    IF ~notna(n) \/ ~notna(d) THEN NaN
    ELSE IF d[1] = 0
         THEN IF n[1] > 0 THEN Inf ELSE IF n[1] < 0 THEN NegInf ELSE NaN
    ELSE LET g == GCD(Abs(n[1]), Abs(d[1]))
             s == IF d[1] < 0 THEN -1 ELSE 1
         IN  <<(s * n[1]) \div g, (s * d[1]) \div g>>

SetMin(S) == CHOOSE x \in S : \A y \in S : x <= y
SetMax(S) == CHOOSE x \in S : \A y \in S : x >= y

----------------------------------------------------------------------------
(* The method registry *)

Method(name, numerator, denominator) ==
    [name |-> name, numerator |-> numerator, denominator |-> denominator]

TEST_POSITIVITY_METHODS == <<
    Method("positiveCasesViral_totalTestEncountersViral",
           "POSITIVE_CASES_VIRAL", "TOTAL_TEST_ENCOUNTERS_VIRAL"),
    Method("positiveTestsViral_totalTestsViral",
           "POSITIVE_TESTS_VIRAL", "TOTAL_TESTS_VIRAL"),
    Method("positiveCasesViral_totalTestsViral",
           "POSITIVE_CASES_VIRAL", "TOTAL_TESTS_VIRAL"),
    Method("positiveTests_totalTestsViral",
           "POSITIVE_TESTS", "TOTAL_TESTS_VIRAL"),
    Method("positiveCasesViral_totalTestsPeopleViral",
           "POSITIVE_CASES_VIRAL", "TOTAL_TESTS_PEOPLE_VIRAL"),
    Method("positiveCasesViral_totalTestResults",
           "POSITIVE_CASES_VIRAL", "TOTAL_TESTS") >>

\* index of the method called name in the registry ms
MethodIndex(ms, name) == CHOOSE i \in DOMAIN ms : ms[i].name = name

----------------------------------------------------------------------------
(* AllMethods.run, step by step *)

ts_value_cols(ms) ==
    {ms[i].numerator : i \in DOMAIN ms} \cup {ms[i].denominator : i \in DOMAIN ms}

\* metrics_in.timeseries_long(cols) indexed by (variable, location_id, date):
\* one record for each stored value of the columns asked for
timeseries_long(store, cols) ==
    LET keys == {k \in cols \X Regions \X Dates : notna(store[k[1]][k[2]][k[3]])}
    IN  [k \in keys |-> store[k[1]][k[2]][k[3]][1]]

\* pd.date_range(start=start, end=end)
date_range(start, end) == [i \in 1..(end - start + 1) |-> start + i - 1]

\* pd.date_range(end=end, periods=periods)
date_range_periods(end, periods) == [i \in 1..periods |-> end - periods + i]

Elems(seq) == {seq[i] : i \in DOMAIN seq}

\* Index.intersection of two increasing indexes: what is in both, in order
intersection(a, b) == SelectSeq(a, LAMBDA x : x \in Elems(b))

InputDateRange(input_long) ==
    LET dates == {k[3] : k \in DOMAIN input_long}
    IN  date_range(SetMin(dates), SetMax(dates))

\* RecentDateRange without the intersection with the input's dates
RecentDateRangeUnclipped(input_long, periods) ==
    date_range_periods(SetMax({k[3] : k \in DOMAIN input_long}), periods)

RecentDateRange(input_long, periods) ==
    LET dates == {k[3] : k \in DOMAIN input_long}
    IN  intersection(date_range_periods(SetMax(dates), periods),
                     InputDateRange(input_long))

\* input_long.unstack(DATE).reindex(columns=cols): a row for each
\* (variable, location_id) of input_long, a cell for each date of cols
InputWide(input_long, cols) ==
    LET index == {<<k[1], k[2]>> : k \in DOMAIN input_long}
    IN  [ix \in index |->
            [i \in DOMAIN cols |->
                IF <<ix[1], ix[2], cols[i]>> \in DOMAIN input_long
                THEN <<input_long[<<ix[1], ix[2], cols[i]>>]>>
                ELSE NaN]]

\* Diff with the lag left at one column, whatever periods is
DiffPrevColumn(wide, periods) ==
    [ix \in DOMAIN wide |->
        [i \in DOMAIN wide[ix] |->
            IF i - 1 >= 1 THEN Sub(wide[ix][i], wide[ix][i - 1]) ELSE NaN]]

\* DataFrame.diff(periods=periods, axis=1): each column minus the column
\* periods positions to its left
Diff(wide, periods) ==
    [ix \in DOMAIN wide |->
        [i \in DOMAIN wide[ix] |->
            IF i - periods >= 1 THEN Sub(wide[ix][i], wide[ix][i - periods]) ELSE NaN]]

\* delta_df.loc[field, :]: the rows of field, indexed by location_id
Loc(delta_df, field) ==
    LET regions == {ix[2] : ix \in {jx \in DOMAIN delta_df : jx[1] = field}}
    IN  [r \in regions |-> delta_df[<<field, r>>]]

\* delta_df.loc[field, :] raises KeyError when field labels no row
KeyError(delta_df, field) == \A ix \in DOMAIN delta_df : ix[1] # field

\* Method.calculate: the two frames are aligned on location_id and date,
\* a region of only one of them gets a row of NaN
calculate(method, delta_df) ==
    LET num == Loc(delta_df, method.numerator)
        den == Loc(delta_df, method.denominator)
    IN  [r \in (DOMAIN num) \cup (DOMAIN den) |->
            IF r \in DOMAIN num /\ r \in DOMAIN den
            THEN [i \in DOMAIN num[r] |-> TrueDiv(num[r][i], den[r][i])]
            ELSE LET row == IF r \in DOMAIN num THEN num[r] ELSE den[r]
                 IN  [i \in DOMAIN row |-> NaN]]

\* row keys (location_id, variable) in the order of sort_index
KeyLess(a, b) == StrLess(a[1], b[1]) \/ (a[1] = b[1] /\ StrLess(a[2], b[2]))

RECURSIVE SortKeys(_)
SortKeys(S) ==
    IF S = {} THEN <<>>
    ELSE LET m == CHOOSE x \in S : \A y \in S \ {x} : KeyLess(x, y)
         IN  <<m>> \o SortKeys(S \ {m})

\* KeepRow with empty rows not dropped
KeepEveryRow(row) == TRUE

\* .dropna("index", "all"): a row is kept when some cell of it is not NaN
KeepRow(row) == \E i \in DOMAIN row : notna(row[i])

\* pd.concat of the methods' frames, levels reordered to
\* (location_id, variable), empty rows dropped, index sorted
AllWide(ms, delta_df) ==
    LET frames == [i \in DOMAIN ms |-> calculate(ms[i], delta_df)]
        keys == {k \in Regions \X {ms[i].name : i \in DOMAIN ms} :
                    LET i == MethodIndex(ms, k[2])
                    IN  k[1] \in DOMAIN frames[i] /\ KeepRow(frames[i][k[1]])}
        order == SortKeys(keys)
    IN  [j \in DOMAIN order |->
            [location_id |-> order[j][1],
             variable |-> order[j][2],
             values |-> frames[MethodIndex(ms, order[j][2])][order[j][1]]]]

\* HasRecentData looking at every date, not only the recent ones
HasAnyData(row, cols, recent) ==
    \E i \in DOMAIN cols : notna(row.values[i])

\* all_wide.loc[:, recent].notna().any(axis=1) for one row
HasRecentData(row, cols, recent) ==
    \E i \in DOMAIN cols : cols[i] \in Elems(recent) /\ notna(row.values[i])

AllRecentData(wide, cols, recent) ==
    SelectSeq(wide, LAMBDA row : HasRecentData(row, cols, recent))

\* FirstNotNa taking the entry of the first row of the group as it is
FirstEntry(cells) == cells[1]

\* GroupBy.first() of one column: the first entry of the group that is not null
FirstNotNa(cells) ==
    IF \E j \in DOMAIN cells : notna(cells[j])
    THEN cells[SetMin({j \in DOMAIN cells : notna(cells[j])})]
    ELSE NaN

\* all_recent_data.groupby(LOCATION_ID).first()
GroupByFirst(rows, cols) ==
    [r \in {rows[j].location_id : j \in DOMAIN rows} |->
        LET group == SelectSeq(rows, LAMBDA row : row.location_id = r)
        IN  [variable |-> group[1].variable,
             values |-> [i \in DOMAIN cols |->
                            FirstNotNa([j \in DOMAIN group |-> group[j].values[i]])]]]

\* positivity.stack(): the cells that are not NaN, by (location_id, date)
Stack(first, cols) ==
    LET keys == {k \in (DOMAIN first) \X Elems(cols) :
                    \E i \in DOMAIN cols : cols[i] = k[2] /\ notna(first[k[1]].values[i])}
    IN  [k \in keys |->
            first[k[1]].values[CHOOSE i \in DOMAIN cols : cols[i] = k[2]]]

\* MultiRegionTimeseriesDataset.from_timeseries_df(records, provenance)
TestPositivity(rows, cols) ==
    LET first == GroupByFirst(rows, cols)
    IN  [timeseries |-> Stack(first, cols),
         provenance |-> [r \in DOMAIN first |-> first[r].variable]]

NoResult == [timeseries |-> <<>>, provenance |-> <<>>]

\* RunRaises with a missing row label going unnoticed
RunRaisesOnColumnsOnly(cols, ms, input_long, delta_df) ==
    \/ ~(ts_value_cols(ms) \subseteq cols)
    \/ DOMAIN input_long = {}

\* run() raises: the assert on metrics_in.data.columns fails, nothing was
\* observed (no dates), or a field of a method labels no row of delta_df
RunRaises(cols, ms, input_long, delta_df) ==
    \/ ~(ts_value_cols(ms) \subseteq cols)
    \/ DOMAIN input_long = {}
    \/ \E i \in DOMAIN ms : \/ KeyError(delta_df, ms[i].numerator)
                            \/ KeyError(delta_df, ms[i].denominator)

Run ==
    /\ pc = "ready"
    /\ LET input_long == timeseries_long(data, ts_value_cols(methods))
           cols == InputDateRange(input_long)
           recent == RecentDateRange(input_long, recent_days)
           delta_df == Diff(InputWide(input_long, cols), diff_days)
           wide == AllWide(methods, delta_df)
       IN  IF RunRaises(columns, methods, input_long, delta_df)
           THEN /\ pc' = "failed"
                /\ input_date_range' = <<>>
                /\ recent_date_range' = <<>>
                /\ diff_df' = <<>>
                /\ all_wide' = <<>>
                /\ test_positivity' = NoResult
           ELSE /\ pc' = "done"
                /\ input_date_range' = cols
                /\ recent_date_range' = recent
                /\ diff_df' = delta_df
                /\ all_wide' = wide
                /\ test_positivity' =
                       TestPositivity(AllRecentData(wide, cols, recent), cols)
    /\ UNCHANGED <<data, columns, methods, diff_days, recent_days, prev, changed>>

----------------------------------------------------------------------------
(* The stores run() is applied to *)

\* the columns the registries of the model ask for
StoreFields == {"POSITIVE_TESTS_VIRAL", "POSITIVE_CASES_VIRAL", "TOTAL_TESTS_VIRAL"}

TwoMethods == <<TEST_POSITIVITY_METHODS[2], TEST_POSITIVITY_METHODS[3]>>
OneMethod == <<TEST_POSITIVITY_METHODS[2]>>
\* the two methods in registry order, and with the priorities swapped
Registries == {TwoMethods, <<TEST_POSITIVITY_METHODS[3], TEST_POSITIVITY_METHODS[2]>>}

\* a counter that gains slope a day, reported on the days of S
Counter(S, slope) ==
    [d \in Dates |-> IF d \in S THEN <<MaxDate + slope * d>> ELSE NaN]

NoSeries == [d \in Dates |-> NaN]

\* a counter reported from a first to a last day, or on every day but day 2
SeriesFamily ==
    {NoSeries}
    \cup {Counter(a..b, s) : <<a, b, s>> \in Dates \X Dates \X Slopes}
    \cup {Counter(Dates \ {2}, s) : s \in Slopes}

\* no report, a growing or a flat counter reported on every day, or a
\* stale one (the last day is not in yet)
Shapes ==
    {NoSeries,
     Counter(Dates, 1),
     Counter(Dates, 0),
     Counter(1..(MaxDate - 1), 1)}

InitRun ==
    /\ pc = "ready"
    /\ input_date_range = <<>>
    /\ recent_date_range = <<>>
    /\ diff_df = <<>>
    /\ all_wide = <<>>
    /\ test_positivity = NoResult
    /\ prev = NoResult
    /\ changed = {}

\* one region reports, with any series of the family in each column
InitOne ==
    /\ methods = TwoMethods
    /\ columns = StoreFields
    /\ \E one \in [StoreFields -> SeriesFamily] :
         data = [f \in StoreFields |->
                    [r \in Regions |-> IF r = "r1" THEN one[f] ELSE NoSeries]]

\* both regions report; a column may be absent from the store
InitTwo ==
    /\ methods \in Registries
    /\ columns \in {StoreFields} \cup {StoreFields \ {f} : f \in StoreFields}
    /\ data \in [StoreFields -> [Regions -> Shapes]]
    /\ \A f \in StoreFields \ columns : \A r \in Regions : data[f][r] = NoSeries

Init ==
    /\ InitOne \/ InitTwo
    /\ diff_days \in DiffDaysChoices
    /\ recent_days \in RecentDaysChoices
    /\ InitRun

Next == Run

Spec == Init /\ [][Next]_vars

----------------------------------------------------------------------------
(* run() applied again, to a snapshot that differs in one region only *)

\* both regions report the two columns of the one method asked for
InitIso ==
    /\ methods = OneMethod
    /\ columns = StoreFields
    /\ data \in [StoreFields -> [Regions -> Shapes]]
    /\ \A f \in StoreFields \ ts_value_cols(OneMethod) :
         \A r \in Regions : data[f][r] = NoSeries
    /\ diff_days \in DiffDaysChoices
    /\ recent_days \in RecentDaysChoices
    /\ InitRun

\* the observations of region x are replaced (by none at all, too), the
\* result of the run so far is kept for comparison
UpdateRegion(x) ==
    /\ pc = "done"
    /\ changed = {}
    /\ \E new \in [ts_value_cols(methods) -> Shapes] :
         /\ \E f \in ts_value_cols(methods) : new[f] # data[f][x]
         /\ data' = [f \in StoreFields |->
                        IF f \in ts_value_cols(methods)
                        THEN [data[f] EXCEPT ![x] = new[f]]
                        ELSE data[f]]
    /\ prev' = test_positivity
    /\ changed' = {x}
    /\ pc' = "ready"
    /\ input_date_range' = <<>>
    /\ recent_date_range' = <<>>
    /\ diff_df' = <<>>
    /\ all_wide' = <<>>
    /\ test_positivity' = NoResult
    /\ UNCHANGED <<columns, methods, diff_days, recent_days>>

NextIso == Run \/ \E x \in Regions : UpdateRegion(x)

SpecIso == InitIso /\ [][NextIso]_vars

----------------------------------------------------------------------------
(* What the claims are stated in: the store, read directly *)

Requested == ts_value_cols(methods)

ObservedDates ==
    {d \in Dates : \E f \in Requested, r \in Regions : notna(data[f][r][d])}

FirstDate == SetMin(ObservedDates)
LastDate == SetMax(ObservedDates)

\* value(d) minus value(d - diff_days) of each requested field and region,
\* missing unless both are observed and d - diff_days is on the axis
Deltas ==
    LET first == FirstDate
    IN  [f \in Requested, r \in Regions, d \in Dates |->
            IF /\ d - diff_days >= first
               /\ notna(data[f][r][d])
               /\ notna(data[f][r][d - diff_days])
            THEN <<data[f][r][d][1] - data[f][r][d - diff_days][1]>>
            ELSE NaN]

\* the ratio of each method of the registry (by index), region and date
Ratios ==
    LET delta == Deltas
    IN  [i \in DOMAIN methods, r \in Regions, d \in Dates |->
            TrueDiv(delta[methods[i].numerator, r, d],
                    delta[methods[i].denominator, r, d])]

\* the dates of the recency window
Window == LET last == LastDate IN {d \in Dates : d > last - recent_days /\ d <= last}

\* the methods, by index, with a ratio for r on a date of S, given the ratios
Having(ratio, r, S) == {i \in DOMAIN methods : \E d \in S : notna(ratio[i, r, d])}

NameLess(a, b) == SeqLess(CodePoints[a], CodePoints[b])

\* the index in S of the method that is first by name
FirstByName(S) ==
    CHOOSE i \in S : \A o \in S \ {i} : NameLess(methods[i].name, methods[o].name)

Provenance == test_positivity.provenance
Output(r, d) ==
    IF <<r, d>> \in DOMAIN test_positivity.timeseries
    THEN test_positivity.timeseries[<<r, d>>]
    ELSE NaN
OutputRegions == {k[1] : k \in DOMAIN test_positivity.timeseries}

\* the index in the registry of the method the provenance names for r
Selected(r) == MethodIndex(methods, Provenance[r])

RowKeys == {<<all_wide[j].location_id, all_wide[j].variable>> : j \in DOMAIN all_wide}

----------------------------------------------------------------------------
(* The claims *)

\* C1: for every region of the provenance, the method named is the
\* recent-viable method with the lowest index in the registry `methods`.
C1_PriorityByRegistryOrder ==
    pc = "done" =>
        LET viable == [r \in Regions |-> Having(Ratios, r, Window)]
        IN  \A r \in DOMAIN Provenance : \A i \in viable[r] : Selected(r) <= i

\* C2: the output of a region at every date is the ratio, at that date, of
\* the one method its provenance names, and is missing where that ratio is.
C2_OutputIsProvenanceMethod ==
    pc = "done" =>
        LET ratio == Ratios
        IN  \A r \in DOMAIN Provenance : \A d \in Dates :
                Output(r, d) = ratio[Selected(r), r, d]

\* C3: a region is in the output and in the provenance exactly when some
\* method has a non-missing ratio for it on a date of the recency window, the
\* method named has one, and the run completes when no method has.
C3_RecencyNecessity ==
    pc = "done" =>
        LET viable == [r \in Regions |-> Having(Ratios, r, Window)]
        IN  \A r \in Regions :
                /\ r \in DOMAIN Provenance <=> viable[r] # {}
                /\ r \in OutputRegions <=> viable[r] # {}
                /\ r \in DOMAIN Provenance => Selected(r) \in viable[r]

\* C3 witness: a region whose only method with data has it before the window
\* only, and the run completed without it.
C3_Witness ==
    /\ pc = "done"
    /\ \E r \in Regions :
        /\ Cardinality(Having(Ratios, r, Dates)) = 1
        /\ Having(Ratios, r, Window) = {}
        /\ r \notin DOMAIN Provenance
        /\ r \notin OutputRegions

\* C4: where the denominator's delta is 0 and the numerator's delta is not
\* missing, the ratio of the diagnostic table is missing.
C4_ZeroDenominatorIsMissing ==
    pc = "done" =>
        LET delta == Deltas
        IN  \A j \in DOMAIN all_wide : \A i \in DOMAIN input_date_range :
                LET m == methods[MethodIndex(methods, all_wide[j].variable)]
                    r == all_wide[j].location_id
                    d == input_date_range[i]
                IN  (delta[m.denominator, r, d] = <<0>> /\ notna(delta[m.numerator, r, d]))
                        => all_wide[j].values[i] = NaN

\* C5: after the observations of one region were changed, the provenance and
\* the output series of every other region are what they were.
C5_Isolation ==
    (pc = "done" /\ changed # {}) =>
        \A y \in Regions \ changed :
            /\ y \in DOMAIN Provenance <=> y \in DOMAIN prev.provenance
            /\ y \in DOMAIN Provenance => Provenance[y] = prev.provenance[y]
            /\ \A d \in Dates :
                 /\ <<y, d>> \in DOMAIN test_positivity.timeseries
                        <=> <<y, d>> \in DOMAIN prev.timeseries
                 /\ <<y, d>> \in DOMAIN prev.timeseries
                        => Output(y, d) = prev.timeseries[<<y, d>>]

\* C6: diff_df has a row for each (field, region) with an observation, and at
\* each date d of the axis the delta is value(d) - value(d - diff_days) when
\* both are observed and d - diff_days is on the axis, and missing otherwise.
C6_DeltaCorrectness ==
    pc = "done" =>
        LET delta == Deltas
            first == FirstDate
            last == LastDate
        IN  /\ DOMAIN diff_df =
                   {ix \in Requested \X Regions :
                        \E d \in Dates : notna(data[ix[1]][ix[2]][d])}
            /\ \A ix \in DOMAIN diff_df :
                   /\ Len(diff_df[ix]) = last - first + 1
                   /\ \A i \in DOMAIN diff_df[ix] :
                          diff_df[ix][i] = delta[ix[1], ix[2], first + i - 1]

\* C6 witness: a negative delta is kept, and a delta is missing although a
\* nearer observation than d - diff_days exists.
C6_Witness ==
    /\ pc = "done"
    /\ \E ix \in DOMAIN diff_df : \E i \in DOMAIN diff_df[ix] :
           notna(diff_df[ix][i]) /\ diff_df[ix][i][1] < 0
    /\ \E ix \in DOMAIN diff_df : \E i \in DOMAIN diff_df[ix] :
           LET d == FirstDate + i - 1
           IN  /\ diff_df[ix][i] = NaN
               /\ d - diff_days >= FirstDate
               /\ diff_days > 1
               /\ notna(data[ix[1]][ix[2]][d])
               /\ notna(data[ix[1]][ix[2]][d - 1])
               /\ ~notna(data[ix[1]][ix[2]][d - diff_days])

\* C7: the run fails, with no result, exactly when a field of a method of the
\* registry is no column of the store or has no observation in any region.
C7_SchemaError ==
    pc # "ready" =>
        /\ pc = "failed" <=>
               \E f \in Requested :
                   \/ f \notin columns
                   \/ \A r \in Regions, d \in Dates : ~notna(data[f][r][d])
        /\ pc = "failed" =>
               /\ test_positivity = NoResult
               /\ all_wide = <<>>
        /\ pc = "done" => DOMAIN Provenance = OutputRegions

\* C7 witness: the run failed on a column that is in the store but empty,
\* while the other columns have observations.
C7_Witness ==
    /\ pc = "failed"
    /\ Requested \subseteq columns
    /\ \E f \in Requested :
        /\ \A r \in Regions, d \in Dates : ~notna(data[f][r][d])
        /\ \A g \in Requested \ {f} :
               \E r \in Regions, d \in Dates : notna(data[g][r][d])

\* C8: all_methods_timeseries has exactly one row for each (region, method)
\* with a non-missing ratio on the axis, holding the whole ratio series, and
\* every provenance entry is one of its rows.
C8_DiagnosticTable ==
    pc = "done" =>
        LET ratio == Ratios
            first == FirstDate
            last == LastDate
        IN  /\ RowKeys = {<<r, methods[i].name>> :
                              <<r, i>> \in {p \in Regions \X DOMAIN methods :
                                               p[2] \in Having(ratio, p[1], Dates)}}
            /\ Cardinality(RowKeys) = Len(all_wide)
            /\ \A j \in DOMAIN all_wide :
                   /\ Len(all_wide[j].values) = last - first + 1
                   /\ \A i \in DOMAIN all_wide[j].values :
                          all_wide[j].values[i] =
                              ratio[MethodIndex(methods, all_wide[j].variable),
                                    all_wide[j].location_id, first + i - 1]
            /\ \A r \in DOMAIN Provenance : <<r, Provenance[r]>> \in RowKeys

\* C8 witness: a row without recent data is kept, a row of a method that was
\* not selected is kept, and a region with only the numerator has no row.
C8_Witness ==
    /\ pc = "done"
    /\ \E k \in RowKeys :
           MethodIndex(methods, k[2]) \notin Having(Ratios, k[1], Window)
    /\ \E k \in RowKeys : k[1] \in DOMAIN Provenance /\ Provenance[k[1]] # k[2]
    /\ \E r \in Regions, i \in DOMAIN methods :
        /\ <<r, methods[i].name>> \notin RowKeys
        /\ \E d \in Dates : notna(data[methods[i].numerator][r][d])
        /\ \A d \in Dates : ~notna(data[methods[i].denominator][r][d])

\* C9: the date axis is every date from the first to the last observed date
\* of all requested fields and regions, and the recency window is its last
\* min(recent_days, length) dates.
C9_AxisAndWindow ==
    pc = "done" =>
        LET first == FirstDate
            last == LastDate
            n == last - first + 1
            k == IF recent_days < n THEN recent_days ELSE n
        IN  /\ input_date_range = [i \in 1..n |-> first + i - 1]
            /\ recent_date_range = [i \in 1..k |-> last - k + i]
            /\ recent_date_range # <<>>

\* C9 witness: recent_days exceeds the length of an axis of several dates
\* that both regions have observations on.
C9_Witness ==
    /\ pc = "done"
    /\ recent_days > Len(input_date_range)
    /\ Len(input_date_range) > 1
    /\ \A r \in Regions : \E f \in Requested, d \in Dates : notna(data[f][r][d])

\* C10: the rows are in (region, method name) string order; the provenance
\* of a region is its recent-viable method first by name, and its output at d
\* is the ratio at d of the first recent-viable method, by name, that has one.
C10_PickByNameOrder ==
    pc = "done" =>
        LET ratio == Ratios
            window == Window
            viable == [r \in Regions |-> Having(ratio, r, window)]
        IN  /\ \A j \in DOMAIN all_wide : \A k \in DOMAIN all_wide :
                   j < k =>
                       \/ NameLess(all_wide[j].location_id, all_wide[k].location_id)
                       \/ /\ all_wide[j].location_id = all_wide[k].location_id
                          /\ NameLess(all_wide[j].variable, all_wide[k].variable)
            /\ \A r \in DOMAIN Provenance :
                   /\ Selected(r) = FirstByName(viable[r])
                   /\ \A d \in Dates :
                          LET at == {i \in viable[r] : notna(ratio[i, r, d])}
                          IN  Output(r, d) = IF at = {} THEN NaN
                                             ELSE ratio[FirstByName(at), r, d]

\* C10 witness: the method named is not the first of the registry that is
\* recent-viable, and a date of the output comes from another method.
C10_Witness ==
    /\ pc = "done"
    /\ \E r \in DOMAIN Provenance :
        /\ \E i \in Having(Ratios, r, Window) : i < Selected(r)
        /\ \E d \in Dates :
               /\ Ratios[Selected(r), r, d] = NaN
               /\ notna(Output(r, d))

====
